---- MODULE Spec2Model ----
(***************************************************************************)
(* forganizer: organise the files of a source directory tree into          *)
(* DST/<year>/<month> folders (src/forganizer.go).                         *)
(*                                                                         *)
(* File names are strings, as in the program; TLC evaluates Len, Head,     *)
(* Tail, SubSeq and \o on them.  A path is the sequence of its elements.   *)
(* Times are whole days since 1970-01-01; Year and Month are computed from *)
(* the day number.                                                         *)
(***************************************************************************)
EXTENDS Integers, Sequences, FiniteSets, TLC

VARIABLES fs,       \* the filesystem: path -> entry (a file or a directory)
          stack,    \* the call stack of processDir, innermost call last
          opts,     \* the options of the run (read-only during a run)
          srcRoot,  \* the SRC argument
          dstRoot,  \* the DST argument
          flaky,    \* TRUE when remove, mkdir and rename may fail in this environment
          exiftoolOk, \* TRUE when exiftool can be started in this environment
          umask,      \* the file mode creation mask of the process
          run,      \* 1 for the first invocation of the program, 2 for the second
          report,   \* per invocation, the decisions printed: source path -> line
          openDirs, \* the directory handles opened and not closed, as a count
          openEts,  \* the metadata sessions started and not closed, as a count
          last,     \* the step the walk took last
          fs0       \* the filesystem before the first invocation

vars == <<fs, stack, opts, srcRoot, dstRoot, flaky, exiftoolOk, umask, run, report, openDirs, openEts, last, fs0>>

-----------------------------------------------------------------------------
(* Strings                                                                 *)

\* strings.Split(s, sep) for a one-character separator
RECURSIVE Split(_, _)
Split(s, sep) ==
    IF Len(s) = 0 THEN <<"">>
    ELSE LET rest == Split(Tail(s), sep)
         IN  IF Head(s) = sep
             THEN <<"">> \o rest
             ELSE <<Head(s) \o Head(rest)>> \o Tail(rest)

\* strings.Join(parts, sep)
RECURSIVE StrJoin(_, _)
StrJoin(parts, sep) ==
    IF Len(parts) = 0 THEN ""
    ELSE IF Len(parts) = 1 THEN parts[1]
    ELSE parts[1] \o sep \o StrJoin(Tail(parts), sep)

\* fmt's %d, for the non-negative numbers the program formats
FmtD(n) == ToString(n)

\* fmt's %02d
Fmt02DNoPad(n) == ToString(n)

Fmt02D(n) == IF n < 10 THEN "0" \o ToString(n) ELSE ToString(n)

\* A path is the sequence of its elements: <<"dst", "2023", "06", "a.jpg">> is
\* /dst/2023/06/a.jpg.  NoPath is the empty string "", which names nothing.
NoPath == <<"">>

\* path.Join(dir, name) for a name without slashes
PathJoin(dir, name) == Append(dir, name)

\* the parent directory of a path
ParentOf(p) == SubSeq(p, 1, Len(p) - 1)

\* the last element of a path
BaseOf(p) == p[Len(p)]

\* every proper ancestor directory of a path, the root excluded
Ancestors(p) == {SubSeq(p, 1, k) : k \in 1..(Len(p) - 1)}

-----------------------------------------------------------------------------
(* Time: days since 1970-01-01, and the civil calendar                     *)

\* the civil date of a day number
Civil(days) ==
    LET z   == days + 719468
        era == z \div 146097
        doe == z - era * 146097
        yoe == (doe - doe \div 1460 + doe \div 36524 - doe \div 146096) \div 365
        doy == doe - (365 * yoe + yoe \div 4 - yoe \div 100)
        mp  == (5 * doy + 2) \div 153
        d   == doy - (153 * mp + 2) \div 5 + 1
        m   == IF mp < 10 THEN mp + 3 ELSE mp - 9
        y   == yoe + era * 400 + (IF m <= 2 THEN 1 ELSE 0)
    IN  [year |-> y, month |-> m, day |-> d]

\* the day number of a civil date
DayNumber(y0, m, d) ==
    LET y   == IF m <= 2 THEN y0 - 1 ELSE y0
        era == y \div 400
        yoe == y - era * 400
        mp  == IF m > 2 THEN m - 3 ELSE m + 9
        doy == (153 * mp + 2) \div 5 + d - 1
        doe == yoe * 365 + yoe \div 4 - yoe \div 100 + doy
    IN  era * 146097 + doe - 719468

\* time.Time.Year and time.Time.Month
Year(t) == Civil(t).year
Month(t) == Civil(t).month

\* time.Now(), the same during the whole model run
Now == DayNumber(2023, 7, 10)

\* time.Time.AddDate(0, 0, n)
AddDays(t, n) == t + n

\* time.Time.After
After(t, u) == t > u

-----------------------------------------------------------------------------
(* The filesystem                                                          *)
(*                                                                         *)
(* fs maps the real path of each entry to the entry.  A file entry carries *)
(* the inode number (two paths with the same number are hard links of one  *)
(* file), the content, the modification time, whether the content can be   *)
(* read, and the capture date its metadata hold (NoExif when none).  A     *)
(* directory entry carries its permission bits, and what fails on it in    *)
(* this environment: "open" when it cannot be opened, "list" when reading  *)
(* its entries fails, "none" otherwise.  A symbolic link carries its own   *)
(* inode number and modification time and the absolute path it points to.  *)
(* The process owns every entry and is not the superuser: the owner's bits *)
(* of a directory decide what it may do there.  Top-level paths lie in a   *)
(* directory the process may search and write.                             *)

NoExif == -1
NoInfo == [none |-> TRUE]

\* the permission bits written as three octal digits
Oct(u, g, o) == u * 64 + g * 8 + o

\* bit k of a mode
Bit(m, k) == (m \div (2 ^ k)) % 2

\* the bits of m from bit k down that mask leaves: m &^ mask
RECURSIVE AndNot(_, _, _)
AndNot(m, mask, k) ==
    IF k < 0 THEN 0
    ELSE (IF Bit(m, k) = 1 /\ Bit(mask, k) = 0 THEN 2 ^ k ELSE 0) + AndNot(m, mask, k - 1)

\* os.FileMode.Perm() of a new directory after the kernel has applied the umask
Masked(perm) == AndNot(perm, umask, 8)

OwnerRead(m)  == Bit(m, 8) = 1
OwnerWrite(m) == Bit(m, 7) = 1
OwnerExec(m)  == Bit(m, 6) = 1

FileEntry(ino, data, mtime, readable, exif) ==
    [kind |-> "file", ino |-> ino, data |-> data, mtime |-> mtime,
     readable |-> readable, exif |-> exif]

DirEntry(mode) == [kind |-> "dir", mode |-> mode, fault |-> "none"]

FaultyDir(mode, fault) == [kind |-> "dir", mode |-> mode, fault |-> fault]

LinkEntry(ino, to, mtime) == [kind |-> "link", ino |-> ino, to |-> to, mtime |-> mtime]

IsDirAt(f, p) == p \in DOMAIN f /\ f[p].kind = "dir"
IsFileAt(f, p) == p \in DOMAIN f /\ f[p].kind = "file"

\* the permission bits of the entry at real path p: a directory's own; a
\* file's let its owner read it or not; a symbolic link's are all set
ModeOf(f, p) ==
    IF f[p].kind = "dir" THEN f[p].mode
    ELSE IF f[p].kind = "link" THEN Oct(7, 7, 7)
    ELSE IF f[p].readable THEN Oct(6, 4, 4)
    ELSE Oct(0, 0, 0)

\* the os.FileInfo of the entry at real path p
InfoOf(f, p) ==
    IF f[p].kind = "dir"
    THEN [name |-> BaseOf(p), isDir |-> TRUE, modTime |-> 0, ino |-> 0, mode |-> ModeOf(f, p)]
    ELSE [name |-> BaseOf(p), isDir |-> FALSE, modTime |-> f[p].mtime, ino |-> f[p].ino,
          mode |-> ModeOf(f, p)]

\* the symbolic links the kernel follows in one path lookup
MaxSymlinks == 40

Walked(err, path) == [err |-> err, path |-> path]

\* the kernel's path lookup: from the directory at real path cur (<<>> the
\* root) through the elements of rest.  A symbolic link met on the way is
\* followed; one met as the last element only when follow.  The result is the
\* real path of the entry named.
RECURSIVE Walk(_, _, _, _, _)
Walk(f, cur, rest, follow, n) ==
    IF rest = <<>> THEN Walked("", cur)
    ELSE IF cur # <<>> /\ ~OwnerExec(f[cur].mode) THEN Walked("EACCES", NoPath)
    ELSE LET next == Append(cur, Head(rest))
             more == Tail(rest)
         IN  IF next \notin DOMAIN f THEN Walked("ENOENT", NoPath)
             ELSE IF f[next].kind = "link" /\ (more # <<>> \/ follow)
             THEN IF n = 0 THEN Walked("ELOOP", NoPath)
                  ELSE Walk(f, <<>>, f[next].to \o more, follow, n - 1)
             ELSE IF more # <<>> /\ f[next].kind # "dir" THEN Walked("ENOTDIR", NoPath)
             ELSE Walk(f, next, more, follow, n)

\* the real path of the entry p names, a link as its last element not followed
RealPath(f, p) == Walk(f, <<>>, p, FALSE, MaxSymlinks)

\* the real path of what p names once every symbolic link is followed
Resolve(f, p) == Walk(f, <<>>, p, TRUE, MaxSymlinks)

\* what a stat call of p returns when its lookup has ended as r
StatOf(f, p, r) ==
    IF r.err # "" THEN [err |-> r.err, info |-> NoInfo]
    ELSE [err |-> "", info |-> [InfoOf(f, r.path) EXCEPT !.name = BaseOf(p)]]

\* os.Lstat
Lstat(f, p) == StatOf(f, p, RealPath(f, p))

\* os.Stat
Stat(f, p) == StatOf(f, p, Resolve(f, p))

\* os.IsNotExist
IsNotExist(err) == err = "ENOENT"

\* the names of the entries of the directory at real path d
EntriesOf(f, d) ==
    {BaseOf(p) : p \in {q \in DOMAIN f : Len(q) = Len(d) + 1 /\ ParentOf(q) = d}}

\* f without the entry at p
Without(f, p) == [q \in DOMAIN f \ {p} |-> f[q]]

\* f with entry e at p
With(f, p, e) == [q \in DOMAIN f \cup {p} |-> IF q = p THEN e ELSE f[q]]

\* the real path at which the entry named p is, or would be made: its name
\* in the directory its parent path leads to
SlotIn(f, p, d) ==
    IF d.err # "" THEN Walked(d.err, NoPath)
    ELSE IF f[d.path].kind # "dir" THEN Walked("ENOTDIR", NoPath)
    ELSE IF ~OwnerExec(f[d.path].mode) THEN Walked("EACCES", NoPath)
    ELSE Walked("", Append(d.path, BaseOf(p)))

Slot(f, p) ==
    IF Len(p) = 1 THEN Walked("", p) ELSE SlotIn(f, p, Resolve(f, ParentOf(p)))

\* whether the process may add or remove the entry at real path p
CanWrite(f, p) == Len(p) = 1 \/ OwnerWrite(f[ParentOf(p)].mode)

\* os.Remove of the entry in slot s
RemoveAt(f, inj, s) ==
    IF \/ "remove" \in inj
       \/ s.err # ""
       \/ s.path \notin DOMAIN f
       \/ ~CanWrite(f, s.path)
       \/ IsDirAt(f, s.path) /\ EntriesOf(f, s.path) # {}
    THEN [err |-> "remove", fs |-> f]
    ELSE [err |-> "", fs |-> Without(f, s.path)]

\* os.Remove; inj names the system calls that fail in this step
Remove(f, inj, p) == RemoveAt(f, inj, Slot(f, p))

\* os.Mkdir of the directory p in slot s
MkdirAt(f, inj, p, perm, s) ==
    IF \/ inj \cap {"mkdir", "mkdirlast"} # {}
       \/ p = NoPath
       \/ s.err # ""
       \/ s.path \in DOMAIN f
       \/ ~CanWrite(f, s.path)
    THEN [err |-> "mkdir", fs |-> f]
    ELSE [err |-> "", fs |-> With(f, s.path, DirEntry(Masked(perm)))]

\* os.Mkdir(p, perm): the directory gets the bits of perm the umask leaves
Mkdir(f, inj, p, perm) == MkdirAt(f, inj, p, perm, Slot(f, p))

\* os.MkdirAll(path, perm): nothing to do when path is a directory; else the
\* parent is made the same way, then path.  An injected "mkdir" fails every
\* mkdir call, "mkdirlast" the one of path itself: the directories made
\* before it stay.
\* the end of os.MkdirAll: mk, what Mkdir of path returned in filesystem g;
\* ls, what Lstat of path returns there
MkdirAllLast(g, mk, ls) ==
    IF mk.err = "" THEN mk
    ELSE IF ls.err = "" /\ ls.info.isDir THEN [err |-> "", fs |-> g]
    ELSE [err |-> "mkdir", fs |-> g]

\* os.MkdirAll once the parent has been dealt with, with result up
MkdirAllHere(inj, path, perm, up) ==
    IF up.err # "" THEN up
    ELSE MkdirAllLast(up.fs, Mkdir(up.fs, inj, path, perm), Lstat(up.fs, path))

RECURSIVE MkdirAllFrom(_, _, _, _, _)
MkdirAllFrom(f, inj, path, perm, st) ==
    IF st.err = ""
    THEN [err |-> IF st.info.isDir THEN "" ELSE "mkdir", fs |-> f]
    ELSE MkdirAllHere(inj, path, perm,
            IF Len(path) > 1
            THEN MkdirAllFrom(f, inj \ {"mkdirlast"}, ParentOf(path), perm,
                              Stat(f, ParentOf(path)))
            ELSE [err |-> "", fs |-> f])

MkdirAll(f, inj, path, perm) == MkdirAllFrom(f, inj, path, perm, Stat(f, path))

\* os.Rename from slot so to slot sn
RenameAt(f, inj, new, so, sn) ==
    IF \/ "rename" \in inj
       \/ new = NoPath
       \/ so.err # ""
       \/ sn.err # ""
       \/ so.path \notin DOMAIN f
       \/ IsDirAt(f, sn.path)
       \/ ~CanWrite(f, so.path)
       \/ ~CanWrite(f, sn.path)
    THEN [err |-> "rename", fs |-> f]
    ELSE IF sn.path \in DOMAIN f /\ f[sn.path].ino = f[so.path].ino
    THEN [err |-> "", fs |-> f]
    ELSE [err |-> "", fs |-> With(Without(f, so.path), sn.path, f[so.path])]

\* os.Rename(old, new) of a file or link: whatever entry is at new, a directory
\* excepted, is replaced; nothing happens when both are links to one file
Rename(f, inj, old, new) == RenameAt(f, inj, new, Slot(f, old), Slot(f, new))

-----------------------------------------------------------------------------
(* The program's functions                                                 *)

\* isExists: every error but "not exist" counts as existing, with no FileInfo
isExists(f, filename) ==
    LET st == Stat(f, filename)
    IN  IF IsNotExist(st.err) THEN [exists |-> FALSE, info |-> NoInfo]
        ELSE [exists |-> TRUE, info |-> st.info]

\* os.SameFile finding any two entries different
SameFileNever(fi1, fi2) == FALSE

\* os.SameFile(source, target) for a source that is not a directory
SameFile(fi1, fi2) ==
    /\ fi1 # NoInfo
    /\ fi2 # NoInfo
    /\ ~fi2.isDir
    /\ fi1.ino = fi2.ino

\* checksum.MD5sum: the digest of the content, "" with an error when the file
\* cannot be read
MD5sum(f, file) ==
    LET r == Resolve(f, file)
    IN  IF r.err # "" \/ f[r.path].kind = "dir" \/ ~f[r.path].readable
        THEN [sum |-> "", err |-> TRUE]
        ELSE [sum |-> "md5-" \o ToString(f[r.path].data), err |-> FALSE]

\* haveSameContents finding any two files different
haveSameContentsNever(f, file1, file2) == FALSE

\* haveSameContents: the errors of MD5sum are dropped, the sums compared
haveSameContents(f, file1, file2) ==
    LET md5_1 == MD5sum(f, file1).sum
        md5_2 == MD5sum(f, file2).sum
    IN  md5_1 = md5_2

\* SplitName cutting at the first dot instead of the last
SplitNameFirstDot(filename) ==
    LET split == Split(filename, ".")
    IN  IF Len(split) = 1 THEN [name |-> split[1], ext |-> ""]
        ELSE [name |-> split[1],
              ext  |-> StrJoin(SubSeq(split, 2, Len(split)), ".")]

\* the name and the extension genUniqueName splits a file name into
SplitName(filename) ==
    LET split == Split(filename, ".")
    IN  IF Len(split) = 1 THEN [name |-> split[1], ext |-> ""]
        ELSE IF Len(split) = 2 THEN [name |-> split[1], ext |-> split[2]]
        ELSE [name |-> StrJoin(SubSeq(split, 1, Len(split) - 1), "."),
              ext  |-> split[Len(split)]]

\* fmt.Sprintf("%s_%d.%s", name, i, ext)
Candidate(name, i, ext) == name \o "_" \o FmtD(i) \o "." \o ext

\* the value of a decimal digit, -1 for any other character
DigitOf(c) ==
    CASE c = "0" -> 0 [] c = "1" -> 1 [] c = "2" -> 2 [] c = "3" -> 3 [] c = "4" -> 4
      [] c = "5" -> 5 [] c = "6" -> 6 [] c = "7" -> 7 [] c = "8" -> 8 [] c = "9" -> 9
      [] OTHER -> -1

\* the number a string of decimal digits writes, -1 when it is none
RECURSIVE NumberOf(_, _)
NumberOf(s, acc) ==
    IF Len(s) = 0 THEN acc
    ELSE IF DigitOf(SubSeq(s, 1, 1)) < 0 THEN -1
    ELSE NumberOf(SubSeq(s, 2, Len(s)), 10 * acc + DigitOf(SubSeq(s, 1, 1)))

\* the i for which nm is Candidate(name, i, ext), 0 when there is none
IndexOf(nm, name, ext) ==
    LET lo == Len(name) + 2
        hi == Len(nm) - Len(ext) - 1
        i  == IF hi < lo THEN -1 ELSE NumberOf(SubSeq(nm, lo, hi), 0)
    IN  IF i > 0 /\ nm = Candidate(name, i, ext) THEN i ELSE 0

\* the largest i for which some entry of f bears the name Candidate(name, i, ext)
LastNumbered(f, name, ext) ==
    LET taken == {IndexOf(BaseOf(p), name, ext) : p \in DOMAIN f}
    IN  CHOOSE m \in taken \cup {0} : \A k \in taken : k <= m

\* the loop of genUniqueName from candidate i on.  A candidate past the last
\* numbered name of f is the name of no entry: when isExists still answers
\* true for it (os.Stat fails with an error that is not "not exist"), it
\* answers true for every later candidate as well, the loop ends only when
\* i has overflowed the program's int, and "" (NoPath) is returned.
RECURSIVE Probe(_, _, _, _, _)
Probe(f, dir, name, ext, i) ==
    LET newpath == PathJoin(dir, Candidate(name, i, ext))
    IN  IF ~isExists(f, newpath).exists THEN newpath
        ELSE IF i > LastNumbered(f, name, ext) THEN NoPath
        ELSE Probe(f, dir, name, ext, i + 1)

\* genUniqueName with its loop started at 2
genUniqueNameFromTwo(f, dir, filename) ==
    LET s == SplitName(filename)
    IN  Probe(f, dir, s.name, s.ext, 2)

genUniqueName(f, dir, filename) ==
    LET s == SplitName(filename)
    IN  Probe(f, dir, s.name, s.ext, 1)

\* what et.ExtractMetadata finds in the file whose lookup has ended as r: an
\* error when the file cannot be opened and read, or holds no capture date
ExifOf(f, r) ==
    IF \/ r.err # ""
       \/ f[r.path].kind # "file"
       \/ ~f[r.path].readable
       \/ f[r.path].exif = NoExif
    THEN [err |-> TRUE, t |-> 0]
    ELSE [err |-> FALSE, t |-> f[r.path].exif]

\* getExifTime: the capture date of the file's metadata, or an error
getExifTime(f, path) == ExifOf(f, Resolve(f, path))

\* fmt.Sprintf("%d/%02d", year, month) joined to dst_dir
TargetDir(dst_dir, mod_time) ==
    dst_dir \o <<FmtD(Year(mod_time)), Fmt02D(Month(mod_time))>>

\* what processFile leaves: the filesystem, the decision taken, the path it
\* printed last, and the call that failed ("" when none did)
Outcome(f, decision, target, err) ==
    [fs |-> f, decision |-> decision, target |-> target, err |-> err]

\* MoveFile unlinking the source before the rename: a failed rename has lost it
MoveFileUnlinkFirst(f, inj, src_dir, source_path, target_dir, target_path, decision) ==
    LET mk == IF ~isExists(f, target_dir).exists
              THEN MkdirAll(f, inj, target_dir, isExists(f, src_dir).info.mode)
              ELSE [err |-> "", fs |-> f]
    IN  IF mk.err # "" THEN Outcome(mk.fs, decision, target_path, "mkdir")
        ELSE LET rn == Rename(mk.fs, inj, source_path, target_path)
             IN  IF rn.err # ""
                 THEN Outcome(Without(mk.fs, source_path), decision, target_path, "rename")
                 ELSE Outcome(rn.fs, decision, target_path, "")

\* lines 135-147 of processFile: make the target directory, rename
MoveFile(f, inj, src_dir, source_path, target_dir, target_path, decision) ==
    LET mk == IF ~isExists(f, target_dir).exists
              THEN MkdirAll(f, inj, target_dir, isExists(f, src_dir).info.mode)
              ELSE [err |-> "", fs |-> f]
    IN  IF mk.err # "" THEN Outcome(mk.fs, decision, target_path, "mkdir")
        ELSE LET rn == Rename(mk.fs, inj, source_path, target_path)
             IN  IF rn.err # "" THEN Outcome(mk.fs, decision, target_path, "rename")
                 ELSE Outcome(rn.fs, decision, target_path, "")

\* Place without the test of line 134: a dry run moves the file too
PlaceAlways(f, inj, src_dir, source_path, target_dir, target_path, decision, o) ==
    MoveFile(f, inj, src_dir, source_path, target_dir, target_path, decision)

\* lines 134-149 of processFile: nothing is touched in a dry run
Place(f, inj, src_dir, source_path, target_dir, target_path, decision, o) ==
    IF ~o.dry_run
    THEN MoveFile(f, inj, src_dir, source_path, target_dir, target_path, decision)
    ELSE Outcome(f, decision, target_path, "")

\* the modification time processFile buckets the file by
EffectiveTime(f, source_path, source, o) ==
    IF o.exif
    THEN LET e == getExifTime(f, source_path)
         IN  IF e.err THEN source.modTime ELSE e.t
    ELSE source.modTime

processFile(f, inj, src_dir, source, dst_dir, o) ==
    LET name        == source.name
        source_path == PathJoin(src_dir, name)
        mod_time    == EffectiveTime(f, source_path, source, o)
        target_dir  == TargetDir(dst_dir, mod_time)
        target_path == PathJoin(target_dir, name)
        ex          == isExists(f, target_path)
    IN  IF ex.exists
        THEN IF SameFile(source, ex.info)
             THEN Outcome(f, "skip", target_path, "")
             ELSE IF haveSameContents(f, source_path, target_path)
             THEN IF ~o.dry_run
                  THEN LET rm == Remove(f, inj, source_path)
                       IN  Outcome(rm.fs, "merge", target_path, rm.err)
                  ELSE Outcome(f, "merge", target_path, "")
             ELSE Place(f, inj, src_dir, source_path, target_dir,
                        genUniqueName(f, target_dir, name), "rename", o)
        ELSE Place(f, inj, src_dir, source_path, target_dir, target_path, "move", o)

-----------------------------------------------------------------------------
(* The walk: processDir and its deferred calls                             *)

\* the batch size of dir.Readdir
ReaddirBatch == 100

\* a call of processDir(src, dst, opts) about to start
Frame(src) ==
    [src |-> src, pc |-> "open", files |-> <<>>, i |-> 0, defers |-> <<>>,
     seen |-> {}, reads |-> 0]

Top == stack[Len(stack)]

\* the stack with its innermost frame replaced
SetTop(fr) == [stack EXCEPT ![Len(stack)] = fr]

\* every order of the elements of a set
Orders(S) ==
    {q \in [1..Cardinality(S) -> S] : \A x \in S : \E j \in 1..Cardinality(S) : q[j] = x}

\* keep_after of processDir
KeepAfter(o) == AddDays(Now, -1 * o.days_older)

\* the age filter with the days added to now instead of subtracted
TooNewAdded(mod_time, o) == After(mod_time, AddDays(Now, o.days_older))

\* the age filter of processDir: the file is skipped
TooNew(mod_time, o) == After(mod_time, KeepAfter(o))

Step(op, path, decision, target, err) ==
    [op |-> op, path |-> path, decision |-> decision, target |-> target, err |-> err]

\* the line printed for a file, added to the report of this invocation
Reported(path, decision, target, err) ==
    [report EXCEPT ![run] = @ \cup
        {[path |-> path, decision |-> decision, target |-> target, err |-> err]}]

\* whether os.Open fails on what a lookup ended at as r: it must be there,
\* the owner must have read permission on it, and a directory must be one
\* that can be opened
OpenErrAt(f, r) ==
    \/ r.err # ""
    \/ ~OwnerRead(ModeOf(f, r.path))
    \/ f[r.path].kind = "dir" /\ f[r.path].fault = "open"

\* os.Open of a path, links followed
OpenErr(f, p) == OpenErrAt(f, Resolve(f, p))

\* Open where a directory that cannot be opened ends the whole run
OpenFatal ==
    /\ Len(stack) > 0
    /\ Top.pc = "open"
    /\ IF OpenErr(fs, Top.src)
       THEN /\ stack' = <<>>
            /\ UNCHANGED <<openDirs, openEts>>
            /\ last' = Step("open", Top.src, "", <<>>, "open")
       ELSE IF opts.exif /\ ~exiftoolOk
       THEN /\ openDirs' = openDirs + 1
            /\ stack' = SetTop([Top EXCEPT !.pc = "ret"])
            /\ UNCHANGED openEts
            /\ last' = Step("open", Top.src, "", <<>>, "exif")
       ELSE /\ openDirs' = openDirs + 1
            /\ openEts' = IF opts.exif THEN openEts + 1 ELSE openEts
            /\ stack' = SetTop([Top EXCEPT
                   !.pc = "readdir",
                   !.defers = IF opts.exif THEN <<[k |-> "et", path |-> <<>>]>> ELSE <<>>])
            /\ last' = Step("open", Top.src, "", <<>>, "")
    /\ UNCHANGED <<fs, opts, srcRoot, dstRoot, flaky, exiftoolOk, umask, run, report, fs0>>

\* os.Open(src) and, with -exif, exiftool.NewExiftool with its deferred Close
Open ==
    /\ Len(stack) > 0
    /\ Top.pc = "open"
    /\ IF OpenErr(fs, Top.src)
       THEN /\ stack' = SetTop([Top EXCEPT !.pc = "ret"])
            /\ UNCHANGED <<openDirs, openEts>>
            /\ last' = Step("open", Top.src, "", <<>>, "open")
       ELSE IF opts.exif /\ ~exiftoolOk
       THEN /\ openDirs' = openDirs + 1
            /\ stack' = SetTop([Top EXCEPT !.pc = "ret"])
            /\ UNCHANGED openEts
            /\ last' = Step("open", Top.src, "", <<>>, "exif")
       ELSE /\ openDirs' = openDirs + 1
            /\ openEts' = IF opts.exif THEN openEts + 1 ELSE openEts
            /\ stack' = SetTop([Top EXCEPT
                   !.pc = "readdir",
                   !.defers = IF opts.exif THEN <<[k |-> "et", path |-> <<>>]>> ELSE <<>>])
            /\ last' = Step("open", Top.src, "", <<>>, "")
    /\ UNCHANGED <<fs, opts, srcRoot, dstRoot, flaky, exiftoolOk, umask, run, report, fs0>>

\* the real path of the directory a handle opened at p reads
OpenedDir(f, p) == Resolve(f, p).path

\* whether this read of the directory opened at p fails with an error other
\* than io.EOF: when what was opened is no directory; when the directory has
\* entries and may not be searched (Readdir calls lstat on each); its first
\* read when the fault is "list", the read that follows its first batch when
\* the fault is "listlate"
ListErr(f, p, reads) ==
    LET d == OpenedDir(f, p)
    IN  \/ ~IsDirAt(f, d)
        \/ EntriesOf(f, d) # {} /\ ~OwnerExec(f[d].mode)
        \/ f[d].fault = "list" /\ reads = 0
        \/ f[d].fault = "listlate" /\ reads > 0

\* dir.Readdir(100): the next entries in some order, io.EOF, or an error.
\* Entries made after the first read may or may not be listed.
Readdir ==
    /\ Len(stack) > 0
    /\ Top.pc = "readdir"
    /\ LET unseen == EntriesOf(fs, OpenedDir(fs, Top.src)) \ Top.seen
       IN  \E batch \in IF Top.reads = 0 THEN {unseen} ELSE {unseen, {}} :
             IF ListErr(fs, Top.src, Top.reads)
             THEN /\ stack' = SetTop([Top EXCEPT !.pc = "ret"])
                  /\ last' = Step("readdir", Top.src, "", <<>>, "list")
             ELSE IF batch = {}
             THEN /\ stack' = SetTop([Top EXCEPT !.pc = "ret"])
                  /\ last' = Step("eof", Top.src, "", <<>>, "")
             ELSE \E names \in {b \in SUBSET batch :
                                  Cardinality(b) = IF Cardinality(batch) < ReaddirBatch
                                                   THEN Cardinality(batch)
                                                   ELSE ReaddirBatch} :
                  \E order \in Orders(names) :
                    /\ stack' = SetTop([Top EXCEPT
                           !.pc = "loop",
                           !.files = [j \in 1..Len(order) |->
                                         InfoOf(fs, PathJoin(OpenedDir(fs, Top.src), order[j]))],
                           !.i = 1,
                           !.seen = @ \cup names,
                           !.reads = 1])
                    /\ last' = Step("readdir", Top.src, "", <<>>, "")
    /\ UNCHANGED <<fs, opts, srcRoot, dstRoot, flaky, exiftoolOk, umask, run, report, openDirs, openEts, fs0>>

\* the frame after entry i of the batch has been handled
Advance(fr) ==
    IF fr.i = Len(fr.files) THEN [fr EXCEPT !.pc = "readdir"]
    ELSE [fr EXCEPT !.i = fr.i + 1]

\* the loop body for a directory calling processDir of it at once, not deferred
LoopDirAtOnce ==
    /\ Len(stack) > 0
    /\ Top.pc = "loop"
    /\ Top.files[Top.i].isDir
    /\ LET sub == PathJoin(Top.src, Top.files[Top.i].name)
       IN  /\ stack' = IF opts.recursive
                       THEN Append(SetTop(Advance(Top)), Frame(sub))
                       ELSE SetTop(Advance(Top))
           /\ last' = Step("dir", sub, "", <<>>, "")
    /\ UNCHANGED <<fs, opts, srcRoot, dstRoot, flaky, exiftoolOk, umask, run, report, openDirs, openEts, fs0>>

\* the loop body for a directory deferring processDir of it whatever -r says
LoopDirAlways ==
    /\ Len(stack) > 0
    /\ Top.pc = "loop"
    /\ Top.files[Top.i].isDir
    /\ LET sub == PathJoin(Top.src, Top.files[Top.i].name)
       IN  /\ stack' = SetTop(Advance(
                  [Top EXCEPT !.defers = Append(@, [k |-> "dir", path |-> sub])]))
           /\ last' = Step("dir", sub, "", <<>>, "")
    /\ UNCHANGED <<fs, opts, srcRoot, dstRoot, flaky, exiftoolOk, umask, run, report, openDirs, openEts, fs0>>

\* the loop body for a directory: with -r, processDir of it is deferred
LoopDir ==
    /\ Len(stack) > 0
    /\ Top.pc = "loop"
    /\ Top.files[Top.i].isDir
    /\ LET sub == PathJoin(Top.src, Top.files[Top.i].name)
       IN  /\ stack' = SetTop(Advance(
                  IF opts.recursive
                  THEN [Top EXCEPT !.defers = Append(@, [k |-> "dir", path |-> sub])]
                  ELSE Top))
           /\ last' = Step("dir", sub, "", <<>>, "")
    /\ UNCHANGED <<fs, opts, srcRoot, dstRoot, flaky, exiftoolOk, umask, run, report, openDirs, openEts, fs0>>

\* the loop body for a file newer than keep_after: it is skipped
LoopTooNew ==
    /\ Len(stack) > 0
    /\ Top.pc = "loop"
    /\ ~Top.files[Top.i].isDir
    /\ TooNew(Top.files[Top.i].modTime, opts)
    /\ LET source_path == PathJoin(Top.src, Top.files[Top.i].name)
       IN  /\ last' = Step("toonew", source_path, "", <<>>, "")
           /\ report' = Reported(source_path, "toonew", <<>>, "")
    /\ stack' = SetTop(Advance(Top))
    /\ UNCHANGED <<fs, opts, srcRoot, dstRoot, flaky, exiftoolOk, umask, run, openDirs, openEts, fs0>>

\* the system calls that may fail in one step
Injections ==
    IF flaky THEN {{}, {"remove"}, {"mkdir"}, {"mkdirlast"}, {"rename"}} ELSE {{}}

\* the loop body for any other file: processFile
LoopFile ==
    /\ Len(stack) > 0
    /\ Top.pc = "loop"
    /\ ~Top.files[Top.i].isDir
    /\ ~TooNew(Top.files[Top.i].modTime, opts)
    /\ \E inj \in Injections :
         LET source_path == PathJoin(Top.src, Top.files[Top.i].name)
             r == processFile(fs, inj, Top.src, Top.files[Top.i], dstRoot, opts)
         IN  /\ fs' = r.fs
             /\ last' = Step("file", source_path, r.decision, r.target, r.err)
             /\ report' = Reported(source_path, r.decision, r.target, r.err)
    /\ stack' = SetTop(Advance(Top))
    /\ UNCHANGED <<opts, srcRoot, dstRoot, flaky, exiftoolOk, umask, run, openDirs, openEts, fs0>>

\* processDir returns: its deferred calls run, the last deferred first, then
\* the call ends.  The directory handle is never closed.
Return ==
    /\ Len(stack) > 0
    /\ Top.pc = "ret"
    /\ IF Len(Top.defers) = 0
       THEN /\ stack' = SubSeq(stack, 1, Len(stack) - 1)
            /\ last' = Step("return", Top.src, "", <<>>, "")
            /\ UNCHANGED openEts
       ELSE LET d == Top.defers[Len(Top.defers)]
                popped == [Top EXCEPT !.defers = SubSeq(@, 1, Len(@) - 1)]
            IN  IF d.k = "et"
                THEN /\ openEts' = openEts - 1
                     /\ stack' = SetTop(popped)
                     /\ last' = Step("etclose", Top.src, "", <<>>, "")
                ELSE /\ stack' = Append(SetTop(popped), Frame(d.path))
                     /\ last' = Step("deferred", d.path, "", <<>>, "")
                     /\ UNCHANGED openEts
    /\ UNCHANGED <<fs, opts, srcRoot, dstRoot, flaky, exiftoolOk, umask, run, report, openDirs, fs0>>

\* how many times the program is invoked
MaxRuns == 2

\* main once more, with the same arguments, after the program has ended
Again ==
    /\ Len(stack) = 0
    /\ run < MaxRuns
    /\ run' = run + 1
    /\ stack' = <<Frame(srcRoot)>>
    /\ openDirs' = 0
    /\ openEts' = 0
    /\ last' = Step("main", srcRoot, "", <<>>, "")
    /\ UNCHANGED <<fs, opts, srcRoot, dstRoot, flaky, exiftoolOk, umask, report, fs0>>

Next == Open \/ Readdir \/ LoopDir \/ LoopTooNew \/ LoopFile \/ Return \/ Again

-----------------------------------------------------------------------------
(* The trees and options a run starts from                                 *)

\* modification times: two months apart, and a capture date of another year
Old   == DayNumber(2023, 6, 15)
New   == DayNumber(2023, 7, 5)
ExifT == DayNumber(2022, 12, 25)

\* the values of -d: with 20, files modified after 2023-06-20 are too new
DaysChoices == {0, 20}

\* how many numbered copies (name_1.ext, name_2.ext, ...) a bucket may hold at first
MaxSuffix == 2

Absent == [kind |-> "absent"]
AsDir  == [kind |-> "dir"]
AsLink == [kind |-> "link"]

Attr(data, mtime, readable, exif) ==
    [kind |-> "file", data |-> data, mtime |-> mtime, readable |-> readable, exif |-> exif]

Options(exif, recursive, dry_run, days_older) ==
    [exif |-> exif, recursive |-> recursive, dry_run |-> dry_run, days_older |-> days_older]

\* the function with the given <<path, entry>> pairs
FromPairs(S) == [p \in {x[1] : x \in S} |-> (CHOOSE x \in S : x[1] = p)[2]]

\* the names of the year and month folders, written out for the times of the model
BucketNames(t) ==
    CASE t = Old   -> <<"2023", "06">>
      [] t = New   -> <<"2023", "07">>
      [] t = ExifT -> <<"2022", "12">>

\* the k-th numbered copy of each file name of the model, written out
CopyName(name, k) ==
    CASE name = "a.jpg"          -> "a_" \o ToString(k) \o ".jpg"
      [] name = "archive.tar.gz" -> "archive.tar_" \o ToString(k) \o ".gz"
      [] name = "notes"          -> "notes_" \o ToString(k) \o "."
      [] name = ".x"             -> "_" \o ToString(k) \o ".x"
      [] name = "loop"           -> "loop_" \o ToString(k) \o "."
      [] name = "b.jpg"          -> "b_" \o ToString(k) \o ".jpg"
      [] name = "l"              -> "l_" \o ToString(k) \o "."

\* the bucket of June 2023 under dst, where the trees hold their first entries
Bucket(dst) == dst \o BucketNames(Old)

\* A scenario: the name nm of the files; s1, the file SRC/nm; s2, the file
\* SRC/sub/nm; d0, the entry at the bucket's nm (a file, a hard link of s1, or a
\* directory); suf, the numbered copies of nm in the bucket; other, whether
\* archive.gz is in the bucket; blocked, whether DST/2023 is a regular file;
\* lnk, a symbolic link: "target", a dangling one at the bucket's nm; "copy", a
\* dangling one at the bucket's first numbered copy of nm; "tosrc", one at the
\* bucket's nm that points to SRC/nm; "srcdir", SRC/loop, which points to SRC;
\* "srcfile", SRC/l, which points to the file /keep/k.jpg outside both trees;
\* extra, a further file b.jpg: "src", SRC/b.jpg; "sub2", SRC/sub2/b.jpg;
\* fault, the directory that fails: "root-open" and "root-list", SRC;
\* "sub-open", "sub-list" and "sub-listlate", SRC/sub; et, whether exiftool
\* can be started.
PlainFS(sc) ==
    LET b == Bucket(sc.dst)
        hasBucket == ~sc.blocked /\ (sc.d0 # Absent \/ sc.suf # {} \/ sc.other
                                     \/ sc.lnk \in {"target", "copy", "tosrc"})
        file(ino, a) == FileEntry(ino, a.data, a.mtime, a.readable, a.exif)
    IN  FromPairs(
            {<<<<"src">>, IF sc.fault = "root-open" THEN FaultyDir(Oct(7, 5, 5), "open")
                          ELSE IF sc.fault = "root-list" THEN FaultyDir(Oct(7, 5, 5), "list")
                          ELSE DirEntry(Oct(7, 5, 5))>>}
       \cup (IF sc.dst # <<"src">> THEN {<<sc.dst, DirEntry(Oct(7, 0, 0))>>} ELSE {})
       \cup (IF sc.s1 # Absent THEN {<<PathJoin(<<"src">>, sc.nm), file(1, sc.s1)>>} ELSE {})
       \cup (IF sc.s2 # Absent
             THEN {<<<<"src", "sub">>,
                     IF sc.fault = "sub-open" THEN FaultyDir(Oct(7, 5, 5), "open")
                     ELSE IF sc.fault = "sub-list" THEN FaultyDir(Oct(7, 5, 5), "list")
                     ELSE IF sc.fault = "sub-listlate" THEN FaultyDir(Oct(7, 5, 5), "listlate")
                     ELSE DirEntry(Oct(7, 5, 5))>>,
                   <<PathJoin(<<"src", "sub">>, sc.nm), file(2, sc.s2)>>}
             ELSE {})
       \cup (IF sc.blocked
             THEN {<<ParentOf(b), FileEntry(30, 1, Old, TRUE, NoExif)>>}
             ELSE {})
       \cup (IF hasBucket
             THEN {<<ParentOf(b), DirEntry(Oct(7, 0, 0))>>, <<b, DirEntry(Oct(7, 0, 0))>>}
             ELSE {})
       \cup (IF sc.blocked \/ sc.d0 = Absent THEN {}
             ELSE IF sc.d0 = AsDir THEN {<<PathJoin(b, sc.nm), DirEntry(Oct(7, 0, 0))>>}
             ELSE IF sc.d0 = AsLink THEN {<<PathJoin(b, sc.nm), file(1, sc.s1)>>}
             ELSE {<<PathJoin(b, sc.nm), file(3, sc.d0)>>})
       \cup (IF sc.blocked THEN {}
             ELSE {<<PathJoin(b, CopyName(sc.nm, k)),
                     FileEntry(10 + k, 1, Old, TRUE, NoExif)>> : k \in sc.suf})
       \cup (IF ~sc.blocked /\ sc.other
             THEN {<<PathJoin(b, "archive.gz"), FileEntry(20, 2, Old, TRUE, NoExif)>>}
             ELSE {})
       \cup (IF sc.lnk = "target"
             THEN {<<PathJoin(b, sc.nm), LinkEntry(40, <<"gone">>, Old)>>}
             ELSE IF sc.lnk = "copy"
             THEN {<<PathJoin(b, CopyName(sc.nm, 1)), LinkEntry(40, <<"gone">>, Old)>>}
             ELSE IF sc.lnk = "tosrc"
             THEN {<<PathJoin(b, sc.nm), LinkEntry(40, PathJoin(<<"src">>, sc.nm), Old)>>}
             ELSE IF sc.lnk = "srcdir"
             THEN {<<<<"src", "loop">>, LinkEntry(40, <<"src">>, Old)>>}
             ELSE IF sc.lnk = "srcfile"
             THEN {<<<<"src", "l">>, LinkEntry(40, <<"keep", "k.jpg">>, Old)>>,
                   <<<<"keep">>, DirEntry(Oct(7, 5, 5))>>,
                   <<<<"keep", "k.jpg">>, FileEntry(50, 4, Old, TRUE, NoExif)>>}
             ELSE {})
       \cup (IF sc.extra = "src"
             THEN {<<<<"src", "b.jpg">>, FileEntry(5, 3, Old, TRUE, NoExif)>>}
             ELSE IF sc.extra = "sub2"
             THEN {<<<<"src", "sub2">>, DirEntry(Oct(7, 5, 5))>>,
                   <<<<"src", "sub2", "b.jpg">>, FileEntry(5, 3, Old, TRUE, NoExif)>>}
             ELSE {}))

\* f with the entry at path from, and every entry below it, put at path to
Moved(f, from, to) ==
    LET below(p) == Len(p) >= Len(from) /\ SubSeq(p, 1, Len(from)) = from
    IN  FromPairs({<<IF below(p) THEN to \o SubSeq(p, Len(from) + 1, Len(p)) ELSE p, f[p]>> :
                     p \in DOMAIN f})

\* The tree of a scenario.  via says what lies on the way to the bucket:
\* "yearlink", DST/2023 is a symbolic link to the directory /alt, which holds
\* what DST/2023 would; "yeardangling", DST/2023 is a symbolic link to
\* nothing; "bucketdangling", DST/2023/06 is one; "bucketclosed", the bucket
\* has no permission bit set; "srcreadonly", SRC may not be written.
BuildFS(sc) ==
    LET f == PlainFS(sc)
        b == Bucket(sc.dst)
        y == ParentOf(b)
    IN  CASE sc.via = "none" -> f
          [] sc.via = "yearlink" ->
                With(With(Moved(f, y, <<"alt">>), <<"alt">>, DirEntry(Oct(7, 0, 0))),
                     y, LinkEntry(41, <<"alt">>, Old))
          [] sc.via = "yeardangling" -> With(f, y, LinkEntry(41, <<"gone">>, Old))
          [] sc.via = "bucketdangling" ->
                With(With(f, y, DirEntry(Oct(7, 0, 0))), b, LinkEntry(41, <<"gone">>, Old))
          [] sc.via = "bucketclosed" ->
                With(With(f, y, DirEntry(Oct(7, 0, 0))), b, DirEntry(Oct(0, 0, 0)))
          [] sc.via = "srcreadonly" -> With(f, <<"src">>, DirEntry(Oct(5, 5, 5)))

Scenario(nm, s1, s2, d0, suf, other, blocked, dst, o, fl) ==
    [nm |-> nm, s1 |-> s1, s2 |-> s2, d0 |-> d0, suf |-> suf, other |-> other,
     blocked |-> blocked, dst |-> dst, o |-> o, flaky |-> fl, lnk |-> "none",
     extra |-> "none", fault |-> "none", et |-> TRUE, via |-> "none",
     umask |-> Oct(0, 2, 2)]

Plain(data) == Attr(data, Old, TRUE, NoExif)

\* two files of one name meeting each other and what the bucket holds
CoreScenarios ==
    {Scenario("a.jpg", s1, s2, d0, suf, FALSE, FALSE, <<"dst">>,
              Options(FALSE, r, dry, days), FALSE) :
        s1 \in {Absent, Plain(1), Attr(1, Old, FALSE, NoExif), Attr(1, New, TRUE, NoExif)},
        s2 \in {Absent} \cup {Attr(d, Old, rd, NoExif) : d \in {1, 2}, rd \in BOOLEAN}
                        \cup {Attr(2, New, TRUE, NoExif)},
        d0 \in {Absent, AsDir} \cup {Attr(d, Old, rd, NoExif) : d \in {1, 2}, rd \in BOOLEAN},
        suf \in SUBSET (1..MaxSuffix),
        r \in BOOLEAN, dry \in BOOLEAN, days \in DaysChoices}

\* the source file is a hard link of the entry at its target path
HardLinkScenarios ==
    {Scenario("a.jpg", s1, Absent, AsLink, suf, FALSE, FALSE, <<"dst">>,
              Options(FALSE, FALSE, dry, 0), FALSE) :
        s1 \in {Plain(1), Attr(1, Old, FALSE, NoExif)},
        suf \in SUBSET (1..MaxSuffix), dry \in BOOLEAN}

\* names with several dots, with no dot, and with a leading dot
NameScenarios ==
    {Scenario(nm, s1, Absent, d0, suf, other, FALSE, <<"dst">>,
              Options(FALSE, FALSE, dry, 0), FALSE) :
        nm \in {"archive.tar.gz", "notes", ".x"},
        s1 \in {Plain(1), Attr(1, Old, FALSE, NoExif)},
        d0 \in {Absent, Plain(1), Plain(2)},
        suf \in SUBSET (1..MaxSuffix),
        other \in BOOLEAN, dry \in BOOLEAN}

\* -exif: files with and without a capture date, and one that cannot be read
ExifScenarios ==
    {Scenario("a.jpg", s1, s2, d0, {}, FALSE, FALSE, <<"dst">>,
              Options(TRUE, r, dry, days), FALSE) :
        s1 \in {Plain(1), Attr(1, Old, TRUE, ExifT), Attr(1, New, TRUE, ExifT),
                Attr(1, Old, FALSE, ExifT)},
        s2 \in {Absent, Attr(2, Old, TRUE, ExifT)},
        d0 \in {Absent, Plain(1), Plain(2)},
        r \in BOOLEAN, dry \in BOOLEAN, days \in DaysChoices}

\* remove, mkdir and rename may fail
FlakyScenarios ==
    {Scenario("a.jpg", Plain(1), s2, d0, {}, FALSE, FALSE, <<"dst">>,
              Options(FALSE, r, dry, 0), TRUE) :
        s2 \in {Absent, Plain(2)},
        d0 \in {Absent, Plain(1), Plain(2)},
        r \in BOOLEAN, dry \in BOOLEAN}

\* DST is SRC or lies inside SRC; the file in the bucket of June may be one
\* last modified in July
NestedScenarios ==
    {Scenario("a.jpg", s1, s2, d0, suf, FALSE, FALSE, dst,
              Options(FALSE, r, dry, days), FALSE) :
        s1 \in {Absent, Plain(1), Attr(1, New, TRUE, NoExif)},
        s2 \in {Absent, Plain(1), Plain(2)},
        d0 \in {Absent, Plain(1), Plain(2), Attr(2, New, TRUE, NoExif)},
        suf \in {{}, {1}},
        dst \in {<<"src">>, <<"src", "out">>},
        r \in BOOLEAN, dry \in BOOLEAN, days \in DaysChoices}

\* DST/2023 is a regular file: nothing below it can be examined
BlockedScenarios ==
    {Scenario("a.jpg", s1, s2, Absent, {}, FALSE, TRUE, <<"dst">>,
              Options(FALSE, r, dry, 0), FALSE) :
        s1 \in {Plain(1), Attr(1, Old, FALSE, NoExif)},
        s2 \in {Absent, Plain(2)},
        r \in BOOLEAN, dry \in BOOLEAN}

\* symbolic links in the bucket and in SRC
SymlinkScenarios ==
    {[Scenario("a.jpg", Plain(1), s2, IF lnk = "copy" THEN Plain(2) ELSE Absent, {},
               FALSE, FALSE, <<"dst">>, Options(FALSE, r, dry, 0), FALSE)
        EXCEPT !.lnk = lnk] :
        s2 \in {Absent, Plain(2)},
        lnk \in {"target", "copy", "tosrc", "srcdir"},
        r \in BOOLEAN, dry \in BOOLEAN}

\* a directory of the walk cannot be opened or listed; SRC/sub2 can
FaultScenarios ==
    {[Scenario("a.jpg", Plain(1), Plain(2), Absent, {}, FALSE, FALSE, <<"dst">>,
               Options(FALSE, r, dry, 0), FALSE)
        EXCEPT !.fault = fault, !.extra = "sub2"] :
        fault \in {"none", "root-open", "root-list", "sub-open", "sub-list", "sub-listlate"},
        r \in BOOLEAN, dry \in BOOLEAN}

\* -exif where exiftool cannot be started
NoExiftoolScenarios ==
    {[Scenario("a.jpg", Plain(1), s2, Absent, {}, FALSE, FALSE, <<"dst">>,
               Options(TRUE, r, dry, 0), FALSE)
        EXCEPT !.et = FALSE] :
        s2 \in {Absent, Plain(2)},
        r \in BOOLEAN, dry \in BOOLEAN}

\* two files in SRC, where remove, mkdir and rename may fail
TwoFileScenarios ==
    {[Scenario("a.jpg", Plain(1), Absent, d0, {}, FALSE, FALSE, <<"dst">>,
               Options(FALSE, FALSE, dry, 0), TRUE)
        EXCEPT !.extra = "src"] :
        d0 \in {Absent, Plain(2)}, dry \in BOOLEAN}

\* DST is SRC or lies inside SRC, and SRC holds a symbolic link: to a file
\* outside both trees, or to SRC itself
NestedLinkScenarios ==
    {[Scenario("a.jpg", s1, Absent, Absent, {}, FALSE, FALSE, dst,
               Options(FALSE, r, dry, 0), FALSE)
        EXCEPT !.lnk = lnk] :
        s1 \in {Absent, Plain(1)},
        lnk \in {"srcfile", "srcdir"},
        dst \in {<<"src">>, <<"src", "out">>, <<"dst">>},
        r \in BOOLEAN, dry \in BOOLEAN}

\* a symbolic link or a closed directory on the way to the target path
PathScenarios ==
    {[Scenario(nm, Plain(1), s2, d0, suf, FALSE, FALSE, <<"dst">>,
               Options(FALSE, r, dry, 0), fl)
        EXCEPT !.via = via] :
        nm \in {"a.jpg", "archive.tar.gz"},
        s2 \in {Absent, Plain(2)},
        d0 \in {Absent, Plain(1), Plain(2)},
        suf \in {{}, {1}},
        via \in {"yearlink", "bucketclosed"},
        r \in BOOLEAN, dry \in BOOLEAN, fl \in BOOLEAN}
    \cup
    {[Scenario("a.jpg", Plain(1), s2, Absent, {}, FALSE, FALSE, <<"dst">>,
               Options(FALSE, r, dry, 0), FALSE)
        EXCEPT !.via = via] :
        s2 \in {Absent, Plain(2)},
        via \in {"yeardangling", "bucketdangling"},
        r \in BOOLEAN, dry \in BOOLEAN}
    \cup
    {[Scenario("a.jpg", Plain(1), Absent, d0, {}, FALSE, FALSE, <<"dst">>,
               Options(FALSE, FALSE, dry, 0), FALSE)
        EXCEPT !.via = "srcreadonly"] :
        d0 \in {Absent, Plain(1), Plain(2)}, dry \in BOOLEAN}

\* the umask of the process clears bits of the directories it makes; DST may
\* lie inside SRC
UmaskScenarios ==
    {[Scenario("a.jpg", s1, s2, Absent, {}, FALSE, FALSE, dst,
               Options(FALSE, r, dry, 0), FALSE)
        EXCEPT !.umask = um] :
        s1 \in {Plain(1), Attr(1, New, TRUE, NoExif)},
        s2 \in {Absent, Plain(2)},
        dst \in {<<"dst">>, <<"src", "out">>},
        um \in {Oct(0, 0, 2), Oct(0, 7, 7), Oct(2, 7, 7)},
        r \in BOOLEAN, dry \in BOOLEAN}

Scenarios ==
    CoreScenarios \cup HardLinkScenarios \cup NameScenarios \cup ExifScenarios
    \cup FlakyScenarios \cup NestedScenarios \cup BlockedScenarios
    \cup SymlinkScenarios \cup FaultScenarios \cup NoExiftoolScenarios
    \cup TwoFileScenarios \cup PathScenarios \cup UmaskScenarios
    \cup NestedLinkScenarios

Init ==
    \E sc \in Scenarios :
        /\ fs = BuildFS(sc)
        /\ fs0 = BuildFS(sc)
        /\ opts = sc.o
        /\ srcRoot = <<"src">>
        /\ dstRoot = sc.dst
        /\ flaky = sc.flaky
        /\ exiftoolOk = sc.et
        /\ umask = sc.umask
        /\ run = 1
        /\ report = [r \in 1..MaxRuns |-> {}]
        /\ stack = <<Frame(<<"src">>)>>
        /\ openDirs = 0
        /\ openEts = 0
        /\ last = Step("main", <<"src">>, "", <<>>, "")

Spec == Init /\ [][Next]_vars

-----------------------------------------------------------------------------
(* What the claims speak of                                                *)

\* the program has ended
Done == Len(stack) = 0

\* the walk is about to call processFile for entry i of the batch
AtFile ==
    /\ Len(stack) > 0
    /\ Top.pc = "loop"
    /\ ~Top.files[Top.i].isDir
    /\ ~TooNew(Top.files[Top.i].modTime, opts)

\* that entry, its path, and the timestamp it is bucketed by
CurFile == Top.files[Top.i]
CurPath == PathJoin(Top.src, CurFile.name)
CurTime == EffectiveTime(fs, CurPath, CurFile, opts)

\* DST/YYYY/MM and DST/YYYY/MM/name for the file about to be processed
CurBucket == dstRoot \o BucketNames(CurTime)
CurTarget == Append(CurBucket, CurFile.name)

\* an entry is found under the name p, a symbolic link as its last element
\* not followed
Found(f, p) == Lstat(f, p).err = ""

\* no entry bears the name p, and the directory that would hold it can be searched
Free(f, p) == Lstat(f, p).err = "ENOENT"

\* the entry found under the name p
At(f, p) == f[RealPath(f, p).path]

\* a regular file is found under the name p
FileNamed(f, p) == Found(f, p) /\ At(f, p).kind = "file"

\* a directory is found under the name p, links followed
DirNamed(f, p) == Stat(f, p).err = "" /\ Stat(f, p).info.isDir

\* both digests of the comparison in processFile can be computed
BothReadable == ~MD5sum(fs, CurPath).err /\ ~MD5sum(fs, CurTarget).err

-----------------------------------------------------------------------------
(* C1: with the dry-run option set, the filesystem is in every state what  *)
(* it was before the first invocation (nothing deleted, renamed or         *)
(* created), and a second dry run over the same trees reports, for every   *)
(* file, the decision the first one reported.                              *)
C1_DryRunChangesNothing ==
    opts.dry_run =>
        /\ fs = fs0
        /\ \A r \in 2..run : (r < run \/ Done) => report[r] = report[1]

\* a second dry run has ended, having reported a merge and a rename
C1_Witness ==
    /\ opts.dry_run
    /\ run = 2
    /\ Done
    /\ \E x, y \in report[2] : x.decision = "merge" /\ y.decision = "rename"

(* C2: when the target path DST/YYYY/MM/name holds a different file (not a *)
(* hard link of the source) with the same content, and both can be read,   *)
(* processFile decides Merge; in a real run whose remove succeeds the      *)
(* source is deleted and nothing else changes (the target stays, no        *)
(* numbered copy appears); in a dry run nothing changes.                   *)
C2_IdenticalContentMerges ==
    [][(/\ AtFile
        /\ IsFileAt(fs, CurPath)
        /\ FileNamed(fs, CurTarget)
        /\ At(fs, CurTarget).ino # fs[CurPath].ino
        /\ At(fs, CurTarget).data = fs[CurPath].data
        /\ BothReadable)
       => /\ last'.op = "file"
          /\ last'.decision = "merge"
          /\ last'.target = CurTarget
          /\ opts.dry_run => fs' = fs
          /\ (~opts.dry_run /\ last'.err = "") => fs' = Without(fs, CurPath)]_vars

\* a real run has just merged a file: it is gone from SRC, the target is there
C2_Witness ==
    /\ ~opts.dry_run
    /\ last.op = "file"
    /\ last.decision = "merge"
    /\ last.err = ""
    /\ last.path \notin DOMAIN fs
    /\ last.path \in DOMAIN fs0
    /\ IsFileAt(fs, last.target)
    /\ fs[last.target].ino # fs0[last.path].ino
    /\ fs[last.target].data = fs0[last.path].data
    /\ fs[last.target].readable /\ fs0[last.path].readable

(* C3, as claimed: when a file is placed in a real run after another file  *)
(* of the same name and other content was moved to DST/YYYY/MM/name in the *)
(* same run (both readable), it ends at DST/YYYY/MM/name_1.ext, and both   *)
(* contents are then in the bucket.                                        *)
C3Case ==
    /\ AtFile
    /\ ~opts.dry_run
    /\ IsFileAt(fs, CurPath)
    /\ FileNamed(fs, CurTarget)
    /\ \E x \in report[run] :
          /\ x.decision = "move" /\ x.err = ""
          /\ x.target = CurTarget
          /\ x.path # CurPath /\ BaseOf(x.path) = CurFile.name
    /\ At(fs, CurTarget).data # fs[CurPath].data
    /\ BothReadable

C3FirstCopy == Append(CurBucket, CopyName(CurFile.name, 1))

C3Placed ==
    /\ last'.op = "file"
    /\ last'.decision = "rename"
    /\ last'.target = C3FirstCopy
    /\ last'.err = "" =>
          /\ Found(fs', C3FirstCopy) /\ At(fs', C3FirstCopy) = fs[CurPath]
          /\ Found(fs', CurTarget) /\ At(fs', CurTarget) = At(fs, CurTarget)
          /\ CurPath \notin DOMAIN fs'

C3_Original == [][C3Case => C3Placed]_vars

(* C3, amended: the same, provided the bucket holds no entry named         *)
(* name_1.ext when the second file is placed.                              *)
C3_SecondFileGetsFirstCopyName ==
    [][(C3Case /\ Free(fs, C3FirstCopy)) => C3Placed]_vars

\* a real run has moved /src/a.jpg to the bucket and then renamed
\* /src/sub/a.jpg, of other content, to a_1.jpg beside it
C3_Witness ==
    /\ ~opts.dry_run
    /\ last.op = "file" /\ last.decision = "rename" /\ last.err = ""
    /\ last.path = <<"src", "sub", "a.jpg">>
    /\ last.target = <<"dst", "2023", "06", "a_1.jpg">>
    /\ \E x \in report[run] :
          /\ x.decision = "move" /\ x.path = <<"src", "a.jpg">>
          /\ x.target = <<"dst", "2023", "06", "a.jpg">>
    /\ IsFileAt(fs, <<"dst", "2023", "06", "a.jpg">>)
    /\ IsFileAt(fs, <<"dst", "2023", "06", "a_1.jpg">>)
    /\ fs[<<"dst", "2023", "06", "a.jpg">>].data # fs[<<"dst", "2023", "06", "a_1.jpg">>].data
    /\ <<"src", "a.jpg">> \notin DOMAIN fs
    /\ <<"src", "sub", "a.jpg">> \notin DOMAIN fs

(* C4: every rename that processFile carries out in a real run goes to a   *)
(* path at which no entry exists at that moment, and it leaves every       *)
(* entry other than the moved file as it was.                              *)
C4_RenameNeverReplaces ==
    [][(/\ AtFile
        /\ ~opts.dry_run
        /\ last'.op = "file"
        /\ last'.decision \in {"move", "rename"}
        /\ last'.err = "")
       => /\ Free(fs, last'.target)
          /\ \A p \in DOMAIN fs \ {CurPath} : p \in DOMAIN fs' /\ fs'[p] = fs[p]]_vars

(* C5: a file whose modification time is later than now minus the -d days  *)
(* is never given a placement decision: it stays at its path as it was,    *)
(* no other path comes to hold it, and the only line reported for it is    *)
(* that it is too new.                                                     *)
IsNewer(t) == t > Now - opts.days_older

C5_TooNewUntouched ==
    \A p \in DOMAIN fs0 :
        (fs0[p].kind = "file" /\ IsNewer(fs0[p].mtime)) =>
            /\ p \in DOMAIN fs /\ fs[p] = fs0[p]
            /\ \A q \in DOMAIN fs :
                  (fs[q].kind = "file" /\ fs[q].ino = fs0[p].ino) => q \in DOMAIN fs0
            /\ \A r \in 1..run : \A x \in report[r] :
                  x.path = p => x.decision = "toonew"

\* a real run has ended that skipped a file as too new and moved another
C5_Witness ==
    /\ ~opts.dry_run
    /\ Done
    /\ \E x, y \in report[1] :
          /\ x.decision = "toonew"
          /\ x.path \in DOMAIN fs /\ IsNewer(fs[x.path].mtime)
          /\ y.decision = "move" /\ y.err = "" /\ y.path \notin DOMAIN fs

(* C6: when a file that passes the age filter is processed in a real run   *)
(* and no entry is at DST/YYYY/MM/name (YYYY and MM the four-digit year    *)
(* and the zero-padded month of its effective timestamp), the decision is  *)
(* to move it there; when no call fails, the file is then at that path,    *)
(* the directories above it exist, the source path is gone, and every      *)
(* other entry is as it was.                                               *)
C6Case ==
    /\ AtFile
    /\ ~opts.dry_run
    /\ CurPath \in DOMAIN fs
    /\ Free(fs, CurTarget)

C6_MovedToYearMonth ==
    [][C6Case
       => /\ last'.op = "file"
          /\ last'.decision = "move"
          /\ last'.target = CurTarget
          /\ last'.err = "" =>
                /\ Found(fs', CurTarget) /\ At(fs', CurTarget) = fs[CurPath]
                /\ CurPath \notin DOMAIN fs'
                /\ \A a \in Ancestors(CurTarget) : DirNamed(fs', a)
                /\ DOMAIN fs' = (DOMAIN fs \ {CurPath})
                                   \cup {RealPath(fs', CurTarget).path}
                                   \cup {Resolve(fs', a).path : a \in Ancestors(CurTarget)}
                /\ \A p \in DOMAIN fs \ {CurPath} : fs'[p] = fs[p]]_vars

\* a real run has moved /src/a.jpg, last modified 2023-06-15, to
\* /dst/2023/06/a.jpg, having created /dst/2023 and /dst/2023/06
C6_Witness ==
    /\ ~opts.dry_run
    /\ last.op = "file" /\ last.decision = "move" /\ last.err = ""
    /\ last.path = <<"src", "a.jpg">>
    /\ last.target = <<"dst", "2023", "06", "a.jpg">>
    /\ fs0[<<"src", "a.jpg">>].mtime = DayNumber(2023, 6, 15)
    /\ <<"dst", "2023">> \notin DOMAIN fs0
    /\ IsDirAt(fs, <<"dst", "2023">>) /\ IsDirAt(fs, <<"dst", "2023", "06">>)
    /\ IsFileAt(fs, <<"dst", "2023", "06", "a.jpg">>)
    /\ fs[<<"dst", "2023", "06", "a.jpg">>] = fs0[<<"src", "a.jpg">>]
    /\ <<"src", "a.jpg">> \notin DOMAIN fs

(* C7: when the entry at the target path DST/YYYY/MM/name is the same      *)
(* underlying file as the source (the same inode), the decision is Skip    *)
(* and the filesystem is left exactly as it was, in a real run as in a dry *)
(* run.                                                                    *)
C7Case ==
    /\ AtFile
    /\ CurPath \in DOMAIN fs
    /\ Stat(fs, CurTarget).err = ""
    /\ ~Stat(fs, CurTarget).info.isDir
    /\ Stat(fs, CurTarget).info.ino = CurFile.ino

C7_SameFileSkipped ==
    [][C7Case
       => /\ last'.op = "file"
          /\ last'.decision = "skip"
          /\ last'.err = ""
          /\ fs' = fs]_vars

\* a real run has skipped a source file that is a hard link of the file at
\* its target path; both paths still hold it
C7_Witness ==
    /\ ~opts.dry_run
    /\ last.op = "file" /\ last.decision = "skip"
    /\ last.path # last.target
    /\ IsFileAt(fs, last.path) /\ IsFileAt(fs, last.target)
    /\ fs[last.path].ino = fs[last.target].ino
    /\ fs = fs0

\* the path of the n-th numbered copy of the current file's name in its bucket
CurCopy(n) == Append(CurBucket, CopyName(CurFile.name, n))

(* C8: the name genUniqueName allocates in the directory DST/YYYY/MM for   *)
(* a file name base.ext is base_N.ext with N the smallest integer from 1   *)
(* on for which the directory holds no entry of that name: none is at      *)
(* base_N.ext, one is at every base_k.ext with k < N.                      *)
C8_SmallestFreeNumber ==
    [][(/\ AtFile
        /\ DirNamed(fs, CurBucket)
        /\ last'.op = "file"
        /\ last'.decision = "rename")
       => \E n \in 1..(Cardinality(DOMAIN fs) + 1) :
             /\ last'.target = CurCopy(n)
             /\ Free(fs, CurCopy(n))
             /\ \A k \in 1..(n - 1) : Found(fs, CurCopy(k))]_vars

(* C9, as claimed: a file named archive.tar.gz that is placed when the     *)
(* bucket DST/YYYY/MM holds a file archive.gz of other content is renamed  *)
(* to archive.tar_1.gz there.                                              *)
C9Given(other) ==
    /\ AtFile
    /\ CurFile.name = "archive.tar.gz"
    /\ IsFileAt(fs, CurPath)
    /\ FileNamed(fs, Append(CurBucket, other))
    /\ At(fs, Append(CurBucket, other)).ino # fs[CurPath].ino
    /\ At(fs, Append(CurBucket, other)).data # fs[CurPath].data
    /\ At(fs, Append(CurBucket, other)).readable /\ fs[CurPath].readable

C9Renamed ==
    /\ last'.op = "file"
    /\ last'.decision = "rename"
    /\ last'.target = Append(CurBucket, "archive.tar_1.gz")
    /\ (~opts.dry_run /\ last'.err = "") =>
          /\ Found(fs', Append(CurBucket, "archive.tar_1.gz"))
          /\ At(fs', Append(CurBucket, "archive.tar_1.gz")) = fs[CurPath]
          /\ CurPath \notin DOMAIN fs'

C9_Original == [][C9Given("archive.gz") => C9Renamed]_vars

(* C9, amended: a file named archive.tar.gz that is placed when the bucket *)
(* holds a file archive.tar.gz of other content, and no entry named        *)
(* archive.tar_1.gz, is renamed to archive.tar_1.gz: the name is cut at    *)
(* its last dot.                                                           *)
C9_LastDotSplitsTheName ==
    [][(/\ C9Given("archive.tar.gz")
        /\ Free(fs, Append(CurBucket, "archive.tar_1.gz")))
       => C9Renamed]_vars

\* a real run has renamed /src/archive.tar.gz to archive.tar_1.gz beside an
\* archive.tar.gz of other content
C9_Witness ==
    /\ ~opts.dry_run
    /\ last.op = "file" /\ last.decision = "rename" /\ last.err = ""
    /\ last.path = <<"src", "archive.tar.gz">>
    /\ last.target = <<"dst", "2023", "06", "archive.tar_1.gz">>
    /\ IsFileAt(fs, <<"dst", "2023", "06", "archive.tar.gz">>)
    /\ IsFileAt(fs, <<"dst", "2023", "06", "archive.tar_1.gz">>)
    /\ fs[<<"dst", "2023", "06", "archive.tar_1.gz">>] = fs0[<<"src", "archive.tar.gz">>]
    /\ fs[<<"dst", "2023", "06", "archive.tar.gz">>].data
          # fs[<<"dst", "2023", "06", "archive.tar_1.gz">>].data
    /\ <<"src", "archive.tar.gz">> \notin DOMAIN fs

(* C10: when the target path holds another file and the content of the     *)
(* source, of the target, or of both cannot be read, processFile decides   *)
(* Rename and the source file is not deleted: after the step it is at its  *)
(* source path or at the path it was renamed to.                           *)
C10_ReadErrorMeansRename ==
    [][(/\ AtFile
        /\ IsFileAt(fs, CurPath)
        /\ FileNamed(fs, CurTarget)
        /\ At(fs, CurTarget).ino # fs[CurPath].ino
        /\ ~fs[CurPath].readable \/ ~At(fs, CurTarget).readable)
       => /\ last'.op = "file"
          /\ last'.decision = "rename"
          /\ \E q \in {CurPath, last'.target} :
                Found(fs', q) /\ At(fs', q) = fs[CurPath]]_vars

(* C11: when os.MkdirAll or os.Rename fails for a file in a real run, the  *)
(* failure is reported for that file, the file is still at its source path *)
(* as it was, every other entry is as it was (only directories made on the *)
(* way to the target may have appeared), and the walk goes on to the next  *)
(* entry of the directory.                                                 *)
C11_FailedMoveLeavesSource ==
    [][(/\ AtFile
        /\ ~opts.dry_run
        /\ CurPath \in DOMAIN fs
        /\ last'.op = "file"
        /\ last'.err \in {"mkdir", "rename"})
       => /\ \E x \in report'[run] : x.path = CurPath /\ x.err = last'.err
          /\ \A p \in DOMAIN fs : p \in DOMAIN fs' /\ fs'[p] = fs[p]
          /\ \A p \in DOMAIN fs' \ DOMAIN fs :
                /\ IsDirAt(fs', p)
                /\ \E a \in Ancestors(CurTarget) : Resolve(fs', a) = Walked("", p)
          /\ Len(stack') = Len(stack)
          /\ stack'[Len(stack)].files = Top.files
          /\ IF Top.i < Len(Top.files)
             THEN stack'[Len(stack)].pc = "loop" /\ stack'[Len(stack)].i = Top.i + 1
             ELSE stack'[Len(stack)].pc = "readdir"]_vars

\* in a real run the move of /src/a.jpg failed and left it in place, and the
\* walk then moved /src/b.jpg, the next file of the directory
C11_Witness ==
    /\ ~opts.dry_run
    /\ run = 1
    /\ last.op = "file" /\ last.decision = "move" /\ last.err = ""
    /\ last.path = <<"src", "b.jpg">>
    /\ <<"src", "b.jpg">> \notin DOMAIN fs
    /\ IsFileAt(fs, <<"dst", "2023", "06", "b.jpg">>)
    /\ \E x \in report[1] :
          /\ x.path = <<"src", "a.jpg">>
          /\ x.err \in {"mkdir", "rename"}
    /\ IsFileAt(fs, <<"src", "a.jpg">>)
    /\ fs[<<"src", "a.jpg">>] = fs0[<<"src", "a.jpg">>]

\* p lies below SRC, in one of its subdirectories
InSubdirOfSrc(p) ==
    /\ Len(p) > Len(srcRoot) + 1
    /\ SubSeq(p, 1, Len(srcRoot)) = srcRoot

(* C12: without -r, no directory but SRC itself is entered, decisions are  *)
(* reported only for files directly in SRC, and every file or link that    *)
(* was in a subdirectory of SRC is still there as it was.                  *)
C12_NonRecursiveStaysInSrc ==
    ~opts.recursive =>
        /\ \A k \in 1..Len(stack) : stack[k].src = srcRoot
        /\ \A r \in 1..run : \A x \in report[r] : ParentOf(x.path) = srcRoot
        /\ \A p \in DOMAIN fs0 :
              (InSubdirOfSrc(p) /\ fs0[p].kind # "dir") =>
                  p \in DOMAIN fs /\ fs[p] = fs0[p]

\* a real run without -r has ended: /src/a.jpg was moved, /src/sub/a.jpg was
\* not looked at
C12_Witness ==
    /\ ~opts.recursive
    /\ ~opts.dry_run
    /\ Done
    /\ <<"src", "a.jpg">> \in DOMAIN fs0
    /\ <<"src", "a.jpg">> \notin DOMAIN fs
    /\ IsFileAt(fs, <<"dst", "2023", "06", "a.jpg">>)
    /\ IsFileAt(fs, <<"src", "sub", "a.jpg">>)
    /\ fs[<<"src", "sub", "a.jpg">>] = fs0[<<"src", "sub", "a.jpg">>]
    /\ \A x \in report[1] : x.path # <<"src", "sub", "a.jpg">>

\* the directories from SRC down to the one that holds p
WalkedTo(p) ==
    {a \in Ancestors(p) : Len(a) >= Len(srcRoot) /\ SubSeq(a, 1, Len(srcRoot)) = srcRoot}

\* p, a file or link of the initial tree below SRC, lies in a directory that
\* cannot be opened or listed, or below one
Abandoned(p) ==
    \E a \in WalkedTo(p) : IsDirAt(fs0, a) /\ fs0[a].fault \in {"open", "list"}

\* the walk comes to p: every directory from SRC down to it can be opened and
\* lists its entries, and the ones below SRC are entered (-r)
Discovered(p) ==
    /\ opts.recursive \/ ParentOf(p) = srcRoot
    /\ ~(opts.exif /\ ~exiftoolOk)
    /\ \A a \in WalkedTo(p) : IsDirAt(fs0, a) /\ fs0[a].fault \in {"none", "listlate"}

\* the files and links of the initial tree below SRC
SourceFiles ==
    {p \in DOMAIN fs0 : Len(p) > Len(srcRoot) /\ SubSeq(p, 1, Len(srcRoot)) = srcRoot
                          /\ fs0[p].kind # "dir"}

(* C13: when SRC itself cannot be opened, no file is processed and the     *)
(* filesystem does not change.  A file in or below a directory that cannot *)
(* be opened or listed is left as it was and gets no decision; every file  *)
(* the walk can come to has its decision by the time the run ends.         *)
C13_OnlyFailedSubtreeAbandoned ==
    /\ OpenErr(fs0, srcRoot) =>
          /\ fs = fs0
          /\ \A r \in 1..run : report[r] = {}
    /\ \A p \in SourceFiles :
          /\ Abandoned(p) =>
                /\ p \in DOMAIN fs /\ fs[p] = fs0[p]
                /\ \A r \in 1..run : \A x \in report[r] : x.path # p
          /\ (Discovered(p) /\ (run > 1 \/ Done)) =>
                \E x \in report[1] : x.path = p

\* a real run with -r has ended: /src/sub could not be opened or listed and
\* its file is where it was; the files of /src and /src/sub2 were moved
C13_Witness ==
    /\ opts.recursive
    /\ ~opts.dry_run
    /\ run = 1
    /\ Done
    /\ IsDirAt(fs0, <<"src", "sub">>)
    /\ fs0[<<"src", "sub">>].fault \in {"open", "list"}
    /\ IsFileAt(fs, <<"src", "sub", "a.jpg">>)
    /\ <<"src", "a.jpg">> \notin DOMAIN fs
    /\ <<"src", "sub2", "b.jpg">> \notin DOMAIN fs
    /\ IsFileAt(fs, <<"dst", "2023", "06", "a.jpg">>)
    /\ IsFileAt(fs, <<"dst", "2023", "06", "b.jpg">>)

\* the first invocation met no error: every directory could be opened and
\* listed, exiftool started when asked for, and no line of its report is an
\* error
FirstRunClean ==
    /\ \A p \in DOMAIN fs0 : fs0[p].kind = "dir" => fs0[p].fault = "none"
    /\ ~(opts.exif /\ ~exiftoolOk)
    /\ \A x \in report[1] : x.err = ""

(* C14: after a real run that met no error, a second run with the same     *)
(* SRC, DST, options and 'now' changes nothing in the filesystem, also     *)
(* when DST is SRC or lies inside SRC and -r is set.                       *)
C14_SecondRealRunChangesNothing ==
    [][(~opts.dry_run /\ run = 2 /\ FirstRunClean) => fs' = fs]_vars

\* the files and links directly in directory d
FilesIn(d) ==
    {p \in DOMAIN fs : Len(p) = Len(d) + 1 /\ ParentOf(p) = d /\ fs[p].kind # "dir"}

(* C15: only the innermost call of processDir is at work: every call below *)
(* it on the stack, for a directory above the current one, has ended its   *)
(* listing and is running its deferred calls; and while the entries of a   *)
(* subdirectory are processed, every file directly in each directory above *)
(* it has had its line reported in this run.                               *)
C15_OwnFilesBeforeSubdirectories ==
    \A k \in 1..(Len(stack) - 1) :
        /\ stack[k].pc = "ret"
        /\ stack[k + 1].src = PathJoin(stack[k].src, BaseOf(stack[k + 1].src))
        /\ Top.pc = "loop" =>
              \A p \in FilesIn(stack[k].src) : \E x \in report[run] : x.path = p

\* with -r, a file of /src/sub is about to be processed; /src/a.jpg, which is
\* still in /src, has had its line
C15_Witness ==
    /\ opts.recursive
    /\ Len(stack) = 2
    /\ Top.src = <<"src", "sub">>
    /\ Top.pc = "loop"
    /\ ~Top.files[Top.i].isDir
    /\ IsFileAt(fs, <<"src", "a.jpg">>)
    /\ \E x \in report[run] : x.path = <<"src", "a.jpg">>

(* C16: when the run has ended, every directory handle that processDir     *)
(* opened and every metadata session it started has been closed.           *)
C16_HandlesReleased ==
    Done => (openDirs = 0 /\ openEts = 0)

\* the program takes finitely many steps: from some point on nothing changes
Terminates == <>[][FALSE]_vars

\* as long as a call of processDir is on the stack it has a step to take
NeverStuck ==
    Len(stack) > 0 =>
        /\ Top.pc \in {"open", "readdir", "loop", "ret"}
        /\ Top.pc = "loop" => Top.i \in 1..Len(Top.files)

\* every directory processDir is called for below SRC is a directory itself,
\* not a link to one, and no directory is on the call stack twice
NoLinkEntered ==
    /\ \A k \in 2..Len(stack) : Lstat(fs, stack[k].src).err = "" => IsDirAt(fs, stack[k].src)
    /\ \A j, k \in 1..Len(stack) : stack[j].src = stack[k].src => j = k

\* the loop of genUniqueName stops at a candidate, and not after one at which
\* no entry exists
LoopEndsAtFreeName ==
    (/\ AtFile
     /\ last'.op = "file"
     /\ last'.decision = "rename")
    => \E n \in 1..(Cardinality(DOMAIN fs) + 1) :
          /\ last'.target = CurCopy(n)
          /\ \A k \in 1..(n - 1) : Found(fs, CurCopy(k))

(* C17: a run takes finitely many steps and is never stuck before its      *)
(* end; processDir is never called for a symbolic link, nor twice for a    *)
(* directory that is still on the stack; and the loop of genUniqueName     *)
(* stops at a candidate name, not after one at which no entry exists.      *)
C17_RunTerminates ==
    /\ Terminates
    /\ []NeverStuck
    /\ []NoLinkEntered
    /\ [][LoopEndsAtFreeName]_vars

\* the line a dry run with the same options prints for the file at p of the
\* initial tree: a dry run leaves the filesystem as it was (C1), so it takes
\* every decision against the initial tree
DryRunLine(p) ==
    LET r == processFile(fs0, {}, ParentOf(p), InfoOf(fs0, p), dstRoot,
                         [opts EXCEPT !.dry_run = TRUE])
    IN  [decision |-> r.decision, target |-> r.target]

(* C18: where no call fails, the decision a real run takes for a file of   *)
(* the initial tree, and the path it names, are the ones a dry run with    *)
(* the same options reports for that file.                                 *)
C18_DryRunPredictsRealRun ==
    [][(/\ AtFile
        /\ ~opts.dry_run
        /\ ~flaky
        /\ run = 1
        /\ CurPath \in DOMAIN fs0
        /\ fs0[CurPath].kind # "dir"
        /\ last'.op = "file")
       => /\ last'.decision = DryRunLine(CurPath).decision
          /\ last'.target = DryRunLine(CurPath).target]_vars

\* every content a file of the initial trees held is held by a file now
ContentsKept ==
    \A p \in DOMAIN fs0 :
        fs0[p].kind = "file" =>
            \E q \in DOMAIN fs : fs[q].kind = "file" /\ fs[q].data = fs0[p].data

\* a step that deletes the source file finds, at its target path, another file
\* of the same content
DeletedOnlyAsDuplicate ==
    (/\ AtFile
     /\ IsFileAt(fs, CurPath)
     /\ last'.op = "file"
     /\ \A q \in DOMAIN fs' : fs'[q] # fs[CurPath])
    => /\ last'.decision = "merge"
       /\ Stat(fs, CurTarget).err = ""
       /\ Stat(fs, CurTarget).info.ino # fs[CurPath].ino
       /\ \E q \in DOMAIN fs \ {CurPath} :
             /\ fs[q].kind = "file"
             /\ fs[q].ino = Stat(fs, CurTarget).info.ino
             /\ fs[q].data = fs[CurPath].data

(* C19: in a real run every content that a file of the source or           *)
(* destination tree held before the run is still held by a file of them,   *)
(* and a source file is deleted only when another file with the same       *)
(* content is at its target path at that moment.                           *)
C19_NoContentLost ==
    /\ [](~opts.dry_run => ContentsKept)
    /\ [][~opts.dry_run => DeletedOnlyAsDuplicate]_vars

====
